---- MODULE Spec2Model ----
(***************************************************************************)
(* GetTransitTimesTool.async_call of custom_components/llm_intents/        *)
(* GoogleRoutes.py: configuration lookup, precondition validation, request *)
(* construction, cache lookup, remote call, transform, cache write and     *)
(* exception containment, with several invocations sharing one cache.      *)
(*                                                                         *)
(* Python values are tagged records: None is [t |-> "none"], a str is      *)
(* [t |-> "str", s |-> ...], a number is [t |-> "num", n |-> ...].         *)
(* Coordinates as numbers are counted in 1/CoordScale of a degree.         *)
(* A Python dict is a function from its keys.                              *)
(***************************************************************************)
EXTENDS Integers, Sequences, FiniteSets, TLC

(* ------------------------------ bounds -------------------------------- *)

\* Number of invocations of async_call in one behaviour.
NumInv == 2
MaxRoutes == 3
\* Durations 0..MaxSeconds are all tried by the transform specification.
MaxSeconds == 3725
\* Distances 0..MaxMeters are all tried by the transform specification.
MaxMeters == 1260

(* --------------------------- Python values ---------------------------- *)

PyNone == [t |-> "none"]
PyStr(s) == [t |-> "str", s |-> s]
PyNum(n) == [t |-> "num", n |-> n]

\* Python truth value of a configuration value (`not x` is ~Truthy(x)).
Truthy(v) ==
    CASE v.t = "none" -> FALSE
      [] v.t = "str" -> v.s # ""
      [] v.t = "num" -> v.n # 0

\* dict.get(key, default)
DictGet(d, k, default) == IF k \in DOMAIN d THEN d[k] ELSE default

\* {**a, **b}
DictMerge(a, b) ==
    [k \in (DOMAIN a) \cup (DOMAIN b) |-> IF k \in DOMAIN b THEN b[k] ELSE a[k]]

(* ------------------------------ strings ------------------------------- *)

CharAt(s, i) == SubSeq(s, i, i)

DigitOf ==
    ("0" :> 0) @@ ("1" :> 1) @@ ("2" :> 2) @@ ("3" :> 3) @@ ("4" :> 4)
    @@ ("5" :> 5) @@ ("6" :> 6) @@ ("7" :> 7) @@ ("8" :> 8) @@ ("9" :> 9)

\* The characters i..j of s are decimal digits.
AllDigits(s, i, j) == \A k \in i..j : CharAt(s, k) \in DOMAIN DigitOf

RECURSIVE DigitsVal(_, _, _)
\* Value of the decimal digits i..j of s (0 when there are none).
DigitsVal(s, i, j) ==
    IF j < i THEN 0
    ELSE DigitsVal(s, i, j - 1) * 10 + DigitOf[CharAt(s, j)]

\* Python's `sub in s`.
Contains(s, sub) ==
    \E i \in 1..(Len(s) - Len(sub) + 1) : SubSeq(s, i, i + Len(sub) - 1) = sub

RECURSIVE RStripLen(_, _, _)
RStripLen(s, c, n) ==
    IF n > 0 /\ CharAt(s, n) = c THEN RStripLen(s, c, n - 1) ELSE n

\* str.rstrip(c) for a one-character c: drops every trailing c.
RStrip(s, c) == SubSeq(s, 1, RStripLen(s, c, Len(s)))

LowerOf ==
    ("A" :> "a") @@ ("B" :> "b") @@ ("C" :> "c") @@ ("D" :> "d") @@ ("E" :> "e")
    @@ ("F" :> "f") @@ ("G" :> "g") @@ ("H" :> "h") @@ ("I" :> "i") @@ ("J" :> "j")
    @@ ("K" :> "k") @@ ("L" :> "l") @@ ("M" :> "m") @@ ("N" :> "n") @@ ("O" :> "o")
    @@ ("P" :> "p") @@ ("Q" :> "q") @@ ("R" :> "r") @@ ("S" :> "s") @@ ("T" :> "t")
    @@ ("U" :> "u") @@ ("V" :> "v") @@ ("W" :> "w") @@ ("X" :> "x") @@ ("Y" :> "y")
    @@ ("Z" :> "z")

LowerChar(c) == IF c \in DOMAIN LowerOf THEN LowerOf[c] ELSE c

RECURSIVE StrLower(_, _)
\* str.lower() of the first n characters of s.
StrLower(s, n) ==
    IF n = 0 THEN "" ELSE StrLower(s, n - 1) \o LowerChar(CharAt(s, n))

RECURSIVE StrReplace(_, _, _, _)
\* str.replace(old, new) of the first n characters of s, for a one-character old.
StrReplace(s, old, new, n) ==
    IF n = 0 THEN ""
    ELSE StrReplace(s, old, new, n - 1)
         \o (IF CharAt(s, n) = old THEN new ELSE CharAt(s, n))

(* ---------------------------- conversions ----------------------------- *)

RECURSIVE Pow10(_)
Pow10(k) == IF k = 0 THEN 1 ELSE 10 * Pow10(k - 1)

\* Position of the first "." of s, 0 when there is none.
DotPos(s) ==
    LET dots == {i \in 1..Len(s) : CharAt(s, i) = "."}
    IN IF dots = {} THEN 0 ELSE CHOOSE i \in dots : \A j \in dots : i <= j

\* 1 when s starts with a sign, else 0.
SignLen(s) == IF Len(s) > 0 /\ CharAt(s, 1) \in {"-", "+"} THEN 1 ELSE 0

Signed(s, magnitude) ==
    IF Len(s) > 0 /\ CharAt(s, 1) = "-" THEN 0 - magnitude ELSE magnitude

\* float(v) of lines 87-88: the value in 1/10000 degree, or the exception
\* raised.  Strings are plain decimals of at most four fraction digits, for
\* which distinct decimals give distinct floats; any other string raises.
PyFloat(v) ==
    IF v.t = "num" THEN [ok |-> TRUE, val |-> v.n]
    ELSE IF v.t = "none"
    THEN [ok |-> FALSE, exc |-> "float() argument must be a string or a real number, not 'NoneType'"]
    ELSE
      LET first == SignLen(v.s) + 1
          last == Len(v.s)
          dot == DotPos(v.s)
          intEnd == IF dot = 0 THEN last ELSE dot - 1
          fracLen == IF dot = 0 THEN 0 ELSE last - dot
          valid == /\ AllDigits(v.s, first, intEnd)
                   /\ dot # 0 => AllDigits(v.s, dot + 1, last)
                   /\ (intEnd - first + 1) + fracLen > 0
                   /\ dot # 0 => dot >= first
                   /\ fracLen <= 4
      IN IF valid
         THEN [ok |-> TRUE,
               val |-> Signed(v.s, DigitsVal(v.s, first, intEnd) * Pow10(4)
                                   + (IF dot = 0 THEN 0
                                      ELSE DigitsVal(v.s, dot + 1, last)
                                           * Pow10(4 - fracLen)))]
         ELSE [ok |-> FALSE,
               exc |-> "could not convert string to float: '" \o v.s \o "'"]

\* int(s) of line 131: an optional sign and at least one decimal digit.
PyInt(s) ==
    IF Len(s) > SignLen(s) /\ AllDigits(s, SignLen(s) + 1, Len(s))
    THEN [ok |-> TRUE, val |-> Signed(s, DigitsVal(s, SignLen(s) + 1, Len(s)))]
    ELSE [ok |-> FALSE,
          exc |-> "invalid literal for int() with base 10: '" \o s \o "'"]

\* A plural only above one.
PluralAboveOne(n) == IF n > 1 THEN "s" ELSE ""

\* Lines 140-142: the "s" of f"hour{'s' if hours != 1 else ''}".
Plural(n) == IF n # 1 THEN "s" ELSE ""

\* Lines 135-142: hours and minutes of a number of seconds, as text.
DurationText(duration_seconds) ==
    LET hours == duration_seconds \div 3600
        minutes == (duration_seconds % 3600) \div 60
    IN IF hours > 0
       THEN ToString(hours) \o " hour" \o Plural(hours) \o " "
            \o ToString(minutes) \o " minute" \o Plural(minutes)
       ELSE ToString(minutes) \o " minute" \o Plural(minutes)

RECURSIVE BinExp(_, _)
\* The e >= 0 with 2^52 <= (m / 1000) * 2^e < 2^53, for 0 < m < 2000 * 2^52,
\* counted down from 52 - k, where k is the number of halvings of m done.
BinExp(m, k) ==
    IF m >= 2000 THEN BinExp(m \div 2, k + 1)
    ELSE IF m >= 1000 THEN 52 - k
    ELSE BinExp(m * 2, k - 1)

RECURSIVE ShiftMod(_, _)
\* (m * 2^e) % 2000
ShiftMod(m, e) == IF e = 0 THEN m % 2000 ELSE ShiftMod((m * 2) % 2000, e - 1)

\* distance_meters / 1000 of line 137 is the IEEE double nearest to the
\* quotient (ties to even): -1, 0 or 1 as the double is below, equal to or
\* above the exact quotient.
DoubleError(m) ==
    LET scaled == ShiftMod(m, BinExp(m, 0))
        low == scaled % 1000
        odd == scaled >= 1000
    IN IF low = 0 THEN 0
       ELSE IF low < 500 THEN -1
       ELSE IF low > 500 THEN 1
       ELSE IF odd THEN 1 ELSE -1

\* Tenths of a kilometre cut off instead of rounded.
KmTenthsTruncated(distance_meters) == distance_meters \div 100

\* Tenths of a kilometre printed by "{:.1f}" for distance_meters / 1000: the
\* double is rounded correctly to one decimal, an exact tie going to even.
KmTenths(distance_meters) ==
    LET q == distance_meters \div 100
        r == distance_meters % 100
    IN IF r < 50 THEN q
       ELSE IF r > 50 THEN q + 1
       ELSE CASE DoubleError(distance_meters) = -1 -> q
              [] DoubleError(distance_meters) = 1 -> q + 1
              [] OTHER -> IF q % 2 = 0 THEN q ELSE q + 1

\* Line 148: f"{distance_km:.1f} km", for a distance of at least 0 meters.
DistanceText(distance_meters) ==
    LET tenths == KmTenths(distance_meters)
    IN ToString(tenths \div 10) \o "." \o ToString(tenths % 10) \o " km"

\* The travel mode lowercased, its underscores kept.
DisplayModeLowerOnly(travel_mode) == StrLower(travel_mode, Len(travel_mode))

\* Line 146: travel_mode.lower().replace("_", " ")
DisplayMode(travel_mode) ==
    LET lower == StrLower(travel_mode, Len(travel_mode))
    IN StrReplace(lower, "_", " ", Len(lower))

(* --------------------- names imported from .const --------------------- *)

DOMAIN_NAME == "llm_intents"
CONF_GOOGLE_ROUTES_API_KEY == "google_routes_api_key"
CONF_GOOGLE_ROUTES_LATITUDE == "google_routes_latitude"
CONF_GOOGLE_ROUTES_LONGITUDE == "google_routes_longitude"
CONF_GOOGLE_ROUTES_TRAVEL_MODE == "google_routes_travel_mode"

\* The default travel mode of the service.
SERVICE_DEFAULTS == (CONF_GOOGLE_ROUTES_TRAVEL_MODE :> PyStr("DRIVE"))

\* __name__ of the module, the namespace of its cache entries.
ModuleName == "custom_components.llm_intents.GoogleRoutes"

response_directive ==
    "Use the route information to answer the user's query.\n"
    \o "Focus on the transit time and relevant route details the user is interested in."

(* ------------------------------ the cache ----------------------------- *)

\* The fingerprint of (namespace, payload): equal for structurally equal
\* payloads, whatever the order their fields were inserted in.
Fingerprint(namespace, payload) == <<namespace, payload>>

\* A payload as Python holds it: its items in the order they were inserted.
Items(payload, order) ==
    [i \in 1..Len(order) |-> <<order[i], payload[order[i]]>>]

\* What the fingerprint reads of the items of a payload: the value of each
\* key, not the position it was inserted at.
Canonical(items) ==
    [k \in {items[i][1] : i \in DOMAIN items} |->
        items[CHOOSE i \in DOMAIN items : items[i][1] = k][2]]

\* SQLiteCache.get: the stored value, None when there is none.
CacheGet(store, namespace, payload) ==
    IF Fingerprint(namespace, payload) \in DOMAIN store
    THEN store[Fingerprint(namespace, payload)]
    ELSE PyNone

\* SQLiteCache.set: one value per fingerprint, a write replaces it.
CacheSet(store, namespace, payload, value) ==
    [f \in (DOMAIN store) \cup {Fingerprint(namespace, payload)} |->
        IF f = Fingerprint(namespace, payload) THEN value ELSE store[f]]

(* ------------------------- steps of async_call ------------------------ *)

Raise(text) == [kind |-> "raise", exc |-> text]
Return(value) == [kind |-> "return", value |-> value]
Pending == [kind |-> "pending"]

\* Lines 59-71: the configuration and the argument read, or the exception
\* raised by a missing hass.data[DOMAIN], an empty list of config entries
\* (StopIteration inside a coroutine surfaces as RuntimeError) or a missing
\* "destination" argument.
ReadConfig(hass, tool_args) ==
    IF DOMAIN_NAME \notin DOMAIN hass.data
    THEN Raise("'" \o DOMAIN_NAME \o "'")
    ELSE IF Len(hass.entries) = 0
    THEN Raise("coroutine raised StopIteration")
    ELSE IF "destination" \notin DOMAIN tool_args
    THEN Raise("'destination'")
    ELSE
      LET config_data ==
            DictMerge(DictGet(hass.data[DOMAIN_NAME], "config", <<>>),
                      hass.entries[1].options)
      IN [kind |-> "ok",
          destination |-> tool_args["destination"],
          api_key |-> DictGet(config_data, CONF_GOOGLE_ROUTES_API_KEY, PyNone),
          latitude |-> DictGet(config_data, CONF_GOOGLE_ROUTES_LATITUDE, PyNone),
          longitude |-> DictGet(config_data, CONF_GOOGLE_ROUTES_LONGITUDE, PyNone),
          travel_mode |->
              DictGet(config_data, CONF_GOOGLE_ROUTES_TRAVEL_MODE,
                      DictGet(SERVICE_DEFAULTS, CONF_GOOGLE_ROUTES_TRAVEL_MODE, PyNone))]

ApiKeyError == [error |-> "Google Routes API key not configured"]
OriginError == [error |-> "Origin location (latitude/longitude) not configured"]

\* Lines 73-77: the configuration error returned, None when validation passes.
Validate(c) ==
    IF ~Truthy(c.api_key) THEN ApiKeyError
    ELSE IF ~Truthy(c.latitude) \/ ~Truthy(c.longitude) THEN OriginError
    ELSE PyNone

\* A request body that carries the credential.
BuildRequestWithCredential(c) ==
    LET lat == PyFloat(c.latitude)
        lon == PyFloat(c.longitude)
    IN IF ~lat.ok THEN Raise(lat.exc)
       ELSE IF ~lon.ok THEN Raise(lon.exc)
       ELSE [kind |-> "ok",
             body |-> [origin |-> [location |-> [latLng |->
                            [latitude |-> lat.val, longitude |-> lon.val]]],
                       destination |-> [address |-> c.destination],
                       travelMode |-> c.travel_mode,
                       routingPreference |-> "TRAFFIC_AWARE",
                       computeAlternativeRoutes |-> FALSE,
                       languageCode |-> "en-US",
                       units |-> "METRIC",
                       key |-> c.api_key]]

\* A request body that leaves the configured travel mode out.
BuildRequestWithoutMode(c) ==
    LET lat == PyFloat(c.latitude)
        lon == PyFloat(c.longitude)
    IN IF ~lat.ok THEN Raise(lat.exc)
       ELSE IF ~lon.ok THEN Raise(lon.exc)
       ELSE [kind |-> "ok",
             body |-> [origin |-> [location |-> [latLng |->
                            [latitude |-> lat.val, longitude |-> lon.val]]],
                       destination |-> [address |-> c.destination],
                       travelMode |-> PyStr("DRIVE"),
                       routingPreference |-> "TRAFFIC_AWARE",
                       computeAlternativeRoutes |-> FALSE,
                       languageCode |-> "en-US",
                       units |-> "METRIC"]]

\* Lines 83-98: the request body, or the exception of float().
BuildRequest(c) ==
    LET lat == PyFloat(c.latitude)
        lon == PyFloat(c.longitude)
    IN IF ~lat.ok THEN Raise(lat.exc)
       ELSE IF ~lon.ok THEN Raise(lon.exc)
       ELSE [kind |-> "ok",
             body |-> [origin |-> [location |-> [latLng |->
                            [latitude |-> lat.val, longitude |-> lon.val]]],
                       destination |-> [address |-> c.destination],
                       travelMode |-> c.travel_mode,
                       routingPreference |-> "TRAFFIC_AWARE",
                       computeAlternativeRoutes |-> FALSE,
                       languageCode |-> "en-US",
                       units |-> "METRIC"]]

\* Lines 83-98: the keys of the request body in the order they are inserted.
RequestKeys ==
    <<"origin", "destination", "travelMode", "routingPreference",
      "computeAlternativeRoutes", "languageCode", "units">>

\* Lines 105-121: what session.post is called with.
PostCall(c, request_body) ==
    [url |-> "https://routes.googleapis.com/directions/v2:computeRoutes",
     json |-> request_body,
     headers |-> [ContentType |-> "application/json",
                  XGoogApiKey |-> c.api_key.s,
                  XGoogFieldMask |-> "routes.duration,routes.distanceMeters"]]

\* A lookup whose stored result is never returned.
CacheHitIgnored(cached_response) == FALSE

\* Line 102: `if cached_response`, false for None and for an empty mapping.
CacheHit(cached_response) ==
    cached_response # PyNone /\ DOMAIN cached_response # {}

\* A caught exception reported as an error of the store.
CaughtAsStorageError(text) == Return([error |-> "Cache error: " \o text])

\* Line 160-162: the error result of a caught exception.
Caught(text) == Return([error |-> "Error getting route: " \o text])

\* The no-route answer reported as an error.
NoRouteAsError == [error |-> "No route found to destination"]

NoRouteResult == [result |-> "No route found to destination"]

\* Every status below 300 taken as success.
IsSuccessBelow300(status) == status < 300

\* Line 123: the status the code takes as success.
IsSuccess(status) == status = 200

\* A transform that takes the last route instead of the first.
TransformLastRoute(data, c) ==
    LET routes == DictGet(data, "routes", <<>>)
    IN IF Len(routes) = 0 THEN [kind |-> "noroute", value |-> NoRouteResult]
       ELSE
         LET route == routes[Len(routes)]
             seconds == PyInt(RStrip(DictGet(route, "duration", "0s"), "s"))
             distance_meters == DictGet(route, "distanceMeters", 0)
         IN IF ~seconds.ok THEN Raise(seconds.exc)
            ELSE [kind |-> "result",
                  value |-> [destination |-> c.destination,
                             travel_mode |-> DisplayMode(c.travel_mode.s),
                             duration |-> DurationText(seconds.val),
                             distance |-> DistanceText(distance_meters),
                             instruction |-> response_directive]]

\* A transform that takes the no-route answer as a result to cache.
TransformCachingNoRoute(data, c) ==
    LET routes == DictGet(data, "routes", <<>>)
    IN IF Len(routes) = 0 THEN [kind |-> "result", value |-> NoRouteResult]
       ELSE
         LET route == routes[1]
             seconds == PyInt(RStrip(DictGet(route, "duration", "0s"), "s"))
             distance_meters == DictGet(route, "distanceMeters", 0)
         IN IF ~seconds.ok THEN Raise(seconds.exc)
            ELSE [kind |-> "result",
                  value |-> [destination |-> c.destination,
                             travel_mode |-> DisplayMode(c.travel_mode.s),
                             duration |-> DurationText(seconds.val),
                             distance |-> DistanceText(distance_meters),
                             instruction |-> response_directive]]

\* Lines 125-150: the result computed from the response data, the no-route
\* result, or the exception raised on the way.
Transform(data, c) ==
    LET routes == DictGet(data, "routes", <<>>)
    IN IF Len(routes) = 0 THEN [kind |-> "noroute", value |-> NoRouteResult]
       ELSE
         LET route == routes[1]
             seconds == PyInt(RStrip(DictGet(route, "duration", "0s"), "s"))
             distance_meters == DictGet(route, "distanceMeters", 0)
         IN IF ~seconds.ok THEN Raise(seconds.exc)
            ELSE IF c.travel_mode.t # "str"
            THEN Raise("'NoneType' object has no attribute 'lower'")
            ELSE [kind |-> "result",
                  value |-> [destination |-> c.destination,
                             travel_mode |-> DisplayMode(c.travel_mode.s),
                             duration |-> DurationText(seconds.val),
                             distance |-> DistanceText(distance_meters),
                             instruction |-> response_directive]]

\* Line 158: the error result of a status that is not success.
StatusError(status) == [error |-> "Routes API error: " \o ToString(status)]

(* ------------------------------- inputs ------------------------------- *)

\* Marks a key left out of a configuration.
Unset == [t |-> "unset"]

\* The configuration mapping with the keys that are set.
Config(api_key, latitude, longitude, travel_mode) ==
    LET all == (CONF_GOOGLE_ROUTES_API_KEY :> api_key)
               @@ (CONF_GOOGLE_ROUTES_LATITUDE :> latitude)
               @@ (CONF_GOOGLE_ROUTES_LONGITUDE :> longitude)
               @@ (CONF_GOOGLE_ROUTES_TRAVEL_MODE :> travel_mode)
    IN [k \in {x \in DOMAIN all : all[x] # Unset} |-> all[k]]

\* hass with hass.data[DOMAIN]["config"] and one config entry with options.
Hass(config, options) ==
    [data |-> (DOMAIN_NAME :> [config |-> config]),
     entries |-> <<[options |-> options]>>]

\* hass without hass.data[DOMAIN], and hass without a config entry.
HassNoData == [data |-> <<>>, entries |-> <<[options |-> <<>>]>>]
HassNoEntry(config) == [data |-> (DOMAIN_NAME :> [config |-> config]), entries |-> <<>>]

TestKey == PyStr("test_routes_key")
TestLat == PyStr("40.7128")
TestLon == PyStr("-74.0060")

TravelModes == {"DRIVE", "WALK", "BICYCLE", "TRANSIT", "TWO_WHEELER"}

GoodConfig == Config(TestKey, TestLat, TestLon, PyStr("DRIVE"))

\* What may fail before the remote call, and after it.
CallFaults ==
    {[session |-> "", get |-> ""],
     [session |-> "Network error", get |-> ""],
     [session |-> "", get |-> "unable to open database file"]}
RespondFaults == {[set |-> ""], [set |-> "database is locked"]}

Destinations == {"Times Square, New York", "Central Park"}

Call1(hass, tool_args) == [hass |-> hass, tool_args |-> tool_args]

\* Configurations that pass validation.
GoodHass ==
    {Hass(GoodConfig, <<>>),
     Hass(GoodConfig, (CONF_GOOGLE_ROUTES_TRAVEL_MODE :> PyStr("TWO_WHEELER")))}

\* The calls of Spec: two configurations and two destinations that pass
\* validation, a configuration without credential and no config entry.
Calls ==
    {Call1(h, [destination |-> d]) : h \in GoodHass, d \in Destinations}
    \cup {Call1(Hass(Config(Unset, TestLat, TestLon, Unset), <<>>),
                [destination |-> "Central Park"]),
          Call1(HassNoEntry(GoodConfig), [destination |-> "Central Park"])}

\* The calls of SpecSingle: every combination of credential, coordinates,
\* travel mode and options, with and without the destination argument.
ApiKeys == {Unset, PyStr(""), TestKey}
Latitudes == {Unset, PyNum(0), PyStr("0"), TestLat, PyStr("north")}
Longitudes == {Unset, PyNum(0), TestLon, PyStr("0.0"), PyStr("-74.006")}
Modes == {Unset, PyStr("DRIVE"), PyStr("TWO_WHEELER")}
Options == {<<>>, (CONF_GOOGLE_ROUTES_LATITUDE :> PyStr("51.5"))}

AllHass ==
    {Hass(Config(k, la, lo, m), o) :
        k \in ApiKeys, la \in Latitudes, lo \in Longitudes, m \in Modes, o \in Options}
    \cup {HassNoData, HassNoEntry(GoodConfig)}

AllCalls ==
    {Call1(h, a) : h \in AllHass, a \in {<<>>, [destination |-> "Central Park"]}}

Route(duration, distanceMeters) ==
    [duration |-> duration, distanceMeters |-> distanceMeters]

ReadOk(x) == [ok |-> TRUE, data |-> x]
ReadFails(text) == [ok |-> FALSE, exc |-> text]

\* A response with a status, what resp.json() gives and what resp.text() gives.
Response(status, json, text) ==
    [kind |-> "response", status |-> status, json |-> json, text |-> text]

Ok200(data) == Response(200, ReadOk(data), ReadOk(""))

\* The answers of the remote call in Spec.
Replies ==
    {Raise("Network error"),
     Response(200, ReadFails("Expecting value"), ReadOk("<html>")),
     Ok200([routes |-> <<>>]),
     Ok200([routes |-> <<Route("1200s", 5000)>>]),
     Ok200([routes |-> <<Route("3660s", 150), Route("60s", 20)>>]),
     Ok200([routes |-> <<Route("soon", 5000)>>]),
     Response(500, ReadOk(<<>>), ReadOk("Internal Server Error"))}

\* The answers of the remote call in SpecSingle.
AllReplies ==
    Replies \cup
    {Ok200(<<>>),
     Ok200([routes |-> <<[duration |-> "7200s"]>>]),
     Ok200([routes |-> <<[distanceMeters |-> 100000]>>]),
     Ok200([routes |-> <<Route("", 5000)>>]),
     Ok200([routes |-> <<Route("90.5s", 5000)>>]),
     Response(201, ReadOk([routes |-> <<Route("1200s", 5000)>>]), ReadOk("")),
     Response(204, ReadOk(<<>>), ReadOk("")),
     Response(404, ReadOk(<<>>), ReadOk("Not Found")),
     Response(500, ReadOk(<<>>), ReadFails("Response payload is not completed"))}

\* The calls and answers of SpecTransform: every travel mode, every duration
\* up to MaxSeconds and every distance up to MaxMeters.
ModeCalls ==
    {Call1(Hass(Config(TestKey, TestLat, TestLon, m), <<>>),
           [destination |-> "Central Park"]) :
        m \in {Unset} \cup {PyStr(x) : x \in TravelModes}}

Seconds == 0..MaxSeconds \cup {7200, 7260, 86400}
Meters == 0..MaxMeters \cup {5000, 100000}

RouteReplies ==
    {Ok200([routes |-> <<Route(ToString(n) \o "s", 5000)>>]) : n \in Seconds}
    \cup {Ok200([routes |-> <<Route("600s", m)>>]) : m \in Meters}
    \cup {Ok200([routes |-> <<[duration |-> "600s"]>>])}

\* The calls and answers of SpecScope: a call and the calls that differ from
\* it in one of latitude, longitude (one of them only in its spelling),
\* travel mode and destination.
ScopeCalls ==
    {Call1(Hass(Config(TestKey, la, TestLon, PyStr("DRIVE")), <<>>),
           [destination |-> "Central Park"]) : la \in {TestLat, PyStr("51.5")}}
    \cup {Call1(Hass(Config(TestKey, TestLat, lo, PyStr("DRIVE")), <<>>),
                [destination |-> "Central Park"]) :
             lo \in {PyStr("-74.006"), PyStr("-0.1276")}}
    \cup {Call1(Hass(Config(TestKey, TestLat, TestLon, PyStr("WALK")), <<>>),
                [destination |-> "Central Park"]),
          Call1(Hass(Config(TestKey, TestLat, TestLon, PyStr("DRIVE")), <<>>),
                [destination |-> "Times Square, New York"])}

ScopeReplies ==
    {Ok200([routes |-> <<>>]),
     Ok200([routes |-> <<Route("1200s", 5000)>>]),
     Ok200([routes |-> <<Route("3660s", 150)>>])}

\* The answers of SpecRoutes: every list of one to MaxRoutes candidates, well
\* formed or not.
Candidates ==
    {Route("1200s", 5000), Route("3660s", 150), Route("soon", 5000),
     [duration |-> "7200s"], <<>>}

CandidateLists ==
    UNION {[1..n -> Candidates] : n \in 1..MaxRoutes}

RoutesReplies == {Ok200([routes |-> l]) : l \in CandidateLists}

\* The calls and answers of SpecCredential: two credentials, two destinations.
Credentials == {TestKey, PyStr("revoked_key")}

CredentialCalls ==
    {Call1(Hass(Config(k, TestLat, TestLon, PyStr("DRIVE")), <<>>),
           [destination |-> d]) : k \in Credentials, d \in Destinations}

CredentialReplies ==
    {Ok200([routes |-> <<Route("1200s", 5000)>>]),
     Ok200([routes |-> <<Route("3660s", 150)>>]),
     Response(403, ReadOk(<<>>), ReadOk("API key not valid"))}

(* -------------------------------- state ------------------------------- *)

VARIABLES
    cache,  \* the cache store: fingerprint -> stored result
    inv     \* inv[p]: the invocation p of async_call

vars == <<cache, inv>>

Procs == 1..NumInv

\* An invocation not yet made.  pc is "idle", "calling" (suspended in
\* session.post) or "done"; hass and tool_args are its arguments and c what
\* lines 59-71 read of them (or the exception they raised); gets, posts and sets list the calls made of
\* cache.get, session.post and cache.set; caught is the text of the exception
\* caught at line 160, "" when there is none.
Idle ==
    [pc |-> "idle", hass |-> PyNone, tool_args |-> <<>>, c |-> PyNone,
     request_body |-> PyNone, gets |-> <<>>, cached_response |-> PyNone,
     posts |-> <<>>, reply |-> PyNone, sets |-> <<>>, caught |-> "",
     outcome |-> Pending]

Finish(rec, outcome) == [rec EXCEPT !.pc = "done", !.outcome = outcome]

\* A caught exception followed by a second request.
FinishCaughtRetrying(rec, text) ==
    [rec EXCEPT !.pc = "done", !.caught = text, !.outcome = Caught(text),
                !.posts = Append(@, "retry")]

\* Lines 160-162.
FinishCaught(rec, text) ==
    [rec EXCEPT !.pc = "done", !.caught = text, !.outcome = Caught(text)]

\* A lookup under another namespace than the write's.
GetCallOtherNamespace(request_body) ==
    [namespace |-> "get_transit_times", payload |-> request_body]

\* The cache.get call of line 101.
GetCall(request_body) == [namespace |-> ModuleName, payload |-> request_body]

\* Lines 59-118, up to the suspension in session.post.  env.session and
\* env.get are the exception texts of async_get_clientsession and of
\* cache.get, "" when they do not fail.
StartCall(rec, store, hass, tool_args, env) ==
    LET c == ReadConfig(hass, tool_args)
        r0 == [rec EXCEPT !.hass = hass, !.tool_args = tool_args, !.c = c]
    IN IF c.kind = "raise" THEN Finish(r0, c)
       ELSE IF Validate(c) # PyNone THEN Finish(r0, Return(Validate(c)))
       ELSE IF env.session # "" THEN FinishCaught(r0, env.session)
       ELSE
         LET b == BuildRequest(c)
         IN IF b.kind = "raise" THEN FinishCaught(r0, b.exc)
            ELSE
              LET get == GetCall(b.body)
                  r1 == [r0 EXCEPT !.request_body = b.body, !.gets = Append(@, get)]
                  cached_response == CacheGet(store, get.namespace, get.payload)
              IN IF env.get # "" THEN FinishCaught(r1, env.get)
                 ELSE IF CacheHit(cached_response)
                 THEN Finish([r1 EXCEPT !.cached_response = cached_response],
                             Return(cached_response))
                 ELSE [r1 EXCEPT !.pc = "calling",
                                 !.cached_response = cached_response,
                                 !.posts = Append(@, PostCall(c, b.body))]

\* A cache.set keyed by the result instead of the request.
SetCallKeyedByResult(request_body, result) ==
    [namespace |-> ModuleName, payload |-> result, value |-> result]

\* A cache.set that passes a part of the result only.
SetCallPartial(request_body, result) ==
    [namespace |-> ModuleName, payload |-> request_body,
     value |-> [destination |-> result.destination]]

\* A cache.set under another namespace than the lookup's.
SetCallOtherNamespace(request_body, result) ==
    [namespace |-> "get_transit_times", payload |-> request_body, value |-> result]

\* The cache.set call of line 152.
SetCall(request_body, result) ==
    [namespace |-> ModuleName, payload |-> request_body, value |-> result]

\* Lines 118-162, from the answer of session.post on.  env.set is the
\* exception text of cache.set, "" when it does not fail.
EndCall(rec, store, reply, env) ==
    LET r0 == [rec EXCEPT !.reply = reply]
    IN IF reply.kind = "raise"
       THEN [rec |-> FinishCaught(r0, reply.exc), store |-> store]
       ELSE IF IsSuccess(reply.status)
       THEN IF ~reply.json.ok
            THEN [rec |-> FinishCaught(r0, reply.json.exc), store |-> store]
            ELSE
              LET t == Transform(reply.json.data, rec.c)
              IN IF t.kind = "noroute"
                 THEN [rec |-> Finish(r0, Return(t.value)), store |-> store]
                 ELSE IF t.kind = "raise"
                 THEN [rec |-> FinishCaught(r0, t.exc), store |-> store]
                 ELSE
                   LET set == SetCall(rec.request_body, t.value)
                       r1 == [r0 EXCEPT !.sets = Append(@, set)]
                   IN IF env.set # ""
                      THEN [rec |-> FinishCaught(r1, env.set), store |-> store]
                      ELSE [rec |-> Finish(r1, Return(t.value)),
                            store |-> CacheSet(store, set.namespace,
                                               set.payload, set.value)]
       ELSE IF ~reply.text.ok
       THEN [rec |-> FinishCaught(r0, reply.text.exc), store |-> store]
       ELSE [rec |-> Finish(r0, Return(StatusError(reply.status))), store |-> store]

Init ==
    /\ cache = <<>>
    /\ inv = [p \in Procs |-> Idle]

\* Invocation p is made, with a call of `calls` and a fault of `faults`, and
\* runs to its first suspension or its end.  Invocations are numbered in the
\* order they are made.
Call(p, calls, faults) ==
    /\ inv[p].pc = "idle"
    /\ \A q \in Procs : q < p => inv[q].pc # "idle"
    /\ \E call \in calls, env \in faults :
          inv' = [inv EXCEPT ![p] =
                    StartCall(inv[p], cache, call.hass, call.tool_args, env)]
    /\ UNCHANGED cache

\* An answer after which the store is emptied of what it held.
RespondClearing(p, replies, faults) ==
    /\ inv[p].pc = "calling"
    /\ \E reply \in replies, env \in faults :
          LET end == EndCall(inv[p], <<>>, reply, env)
          IN /\ inv' = [inv EXCEPT ![p] = end.rec]
             /\ cache' = end.store

\* Invocation p resumes with an answer of `replies` to its remote call and a
\* fault of `faults`, and runs to its end.
Respond(p, replies, faults) ==
    /\ inv[p].pc = "calling"
    /\ \E reply \in replies, env \in faults :
          LET end == EndCall(inv[p], cache, reply, env)
          IN /\ inv' = [inv EXCEPT ![p] = end.rec]
             /\ cache' = end.store

(* ---------------------------- specifications -------------------------- *)

\* Invocations sharing the cache, interleaved at the remote call.
Next ==
    \/ \E p \in Procs : Call(p, Calls, CallFaults)
    \/ \E p \in Procs : Respond(p, Replies, RespondFaults)

Spec == Init /\ [][Next]_vars

\* One invocation on an empty cache, over every configuration and answer.
NextSingle ==
    \/ Call(1, AllCalls, CallFaults)
    \/ Respond(1, AllReplies, RespondFaults)

SpecSingle == Init /\ [][NextSingle]_vars

\* SpecSingle with a remote call that is eventually answered or fails: the
\* await of session.post (lines 118-122) ends with a response or an exception.
SpecSingleLive ==
    SpecSingle /\ WF_vars(Respond(1, AllReplies, RespondFaults))

\* One invocation on an empty cache, over every travel mode, duration and
\* distance.
NextTransform ==
    \/ Call(1, ModeCalls, {[session |-> "", get |-> ""]})
    \/ Respond(1, RouteReplies, {[set |-> ""]})

SpecTransform == Init /\ [][NextTransform]_vars

\* Invocations sharing the cache, over calls that differ in origin, travel
\* mode and destination.
NextScope ==
    \/ \E p \in Procs : Call(p, ScopeCalls, {[session |-> "", get |-> ""]})
    \/ \E p \in Procs : Respond(p, ScopeReplies, {[set |-> ""]})

SpecScope == Init /\ [][NextScope]_vars

\* One invocation on an empty cache, answered with lists of candidates.
NextRoutes ==
    \/ Call(1, {Call1(Hass(GoodConfig, <<>>), [destination |-> "Central Park"])},
             {[session |-> "", get |-> ""]})
    \/ Respond(1, RoutesReplies, {[set |-> ""]})

SpecRoutes == Init /\ [][NextRoutes]_vars

\* Invocations sharing the cache, made with one credential or another.
NextCredential ==
    \/ \E p \in Procs : Call(p, CredentialCalls, {[session |-> "", get |-> ""]})
    \/ \E p \in Procs : Respond(p, CredentialReplies, {[set |-> ""]})

SpecCredential == Init /\ [][NextCredential]_vars

(* ------------------------------- claims ------------------------------- *)

Done(p) == inv[p].pc = "done"
Returned(p) == Done(p) /\ inv[p].outcome.kind = "return"
Result(p) == inv[p].outcome.value

ResultKeys == {"destination", "travel_mode", "duration", "distance", "instruction"}
IsResult(value) == DOMAIN value = ResultKeys
IsNoRoute(value) == DOMAIN value = {"result"}
IsError(value) == DOMAIN value = {"error"}

\* The lookup of invocation p returned a stored result.
Hit(p) == inv[p].cached_response # PyNone
\* The lookup of invocation p returned no stored result and the remote call
\* was answered with a response.
MissAnswered(p) ==
    /\ Done(p) /\ Len(inv[p].gets) = 1 /\ ~Hit(p)
    /\ inv[p].reply # PyNone /\ inv[p].reply.kind = "response"
\* The route candidates of the response of invocation p.
RoutesOf(p) ==
    IF inv[p].reply.json.ok THEN DictGet(inv[p].reply.json.data, "routes", <<>>)
    ELSE <<>>

\* C1: an invocation whose cache lookup returned a stored result returns
\* exactly that result, has called session.post zero times and cache.set zero
\* times; the step that returns it leaves the store as it was.
C1_HitReturnsCached ==
    [][\A p \in Procs :
          (inv[p].pc = "idle" /\ inv'[p].pc # "idle" /\ Hit(p)') =>
             /\ inv'[p].pc = "done"
             /\ inv'[p].outcome = Return(inv'[p].cached_response)
             /\ inv'[p].cached_response =
                  cache[Fingerprint(ModuleName, inv'[p].request_body)]
             /\ inv'[p].posts = <<>>
             /\ inv'[p].sets = <<>>
             /\ cache' = cache]_vars

C1_Witness ==
    \E p \in Procs : Done(p) /\ Hit(p) /\ IsResult(Result(p)) /\ inv[p].posts = <<>>

\* C2 (as claimed): every finished invocation has returned a mapping of one
\* of the three shapes, never raised, and the error text of a caught failure
\* contains the failure's description.
C2_AlwaysStructured ==
    \A p \in Procs :
        Done(p) =>
          /\ inv[p].outcome.kind = "return"
          /\ IsResult(Result(p)) \/ IsNoRoute(Result(p)) \/ IsError(Result(p))
          /\ inv[p].caught # "" =>
                IsError(Result(p)) /\ Contains(Result(p).error, inv[p].caught)

\* The response of invocation p has status 200 and a first route that the
\* transform parses without failure.
TransformSucceeded(rec) ==
    /\ rec.reply # PyNone /\ rec.reply.kind = "response"
    /\ rec.reply.status = 200 /\ rec.reply.json.ok
    /\ Len(DictGet(rec.reply.json.data, "routes", <<>>)) >= 1
    /\ PyInt(RStrip(DictGet(rec.reply.json.data.routes[1], "duration", "0s"), "s")).ok

\* C3: every step that changes the cache store is the end of an invocation
\* that reached a successful transform (status 200, at least one route, parsed
\* without failure) and returns its result; a step ending an invocation in a
\* configuration error, a no-route result, a status error or a caught
\* exception leaves the store as it was.
C3_WriteOnlyOnSuccess ==
    [][/\ cache' # cache =>
            \E p \in Procs :
                /\ inv[p].pc = "calling" /\ inv'[p].pc = "done"
                /\ TransformSucceeded(inv'[p])
                /\ inv'[p].outcome.kind = "return"
                /\ IsResult(inv'[p].outcome.value)
                /\ inv'[p].caught = ""
       /\ \A p \in Procs :
            (inv[p].pc # "done" /\ inv'[p].pc = "done"
             /\ ~(inv'[p].outcome.kind = "return" /\ IsResult(inv'[p].outcome.value)))
                => cache' = cache]_vars

C3_Witness ==
    /\ cache # <<>>
    /\ \E p \in Procs :
          /\ MissAnswered(p) /\ Returned(p)
          /\ Result(p) = NoRouteResult \/ IsError(Result(p))

Absent(v) == v = PyNone \/ v = PyStr("")

ConfigError(p) ==
    inv[p].outcome \in {Return(ApiKeyError), Return(OriginError)}

\* C5 (as claimed): an absent credential gives the credential error, a
\* present credential with an absent coordinate gives the origin error, both
\* before any cache lookup or remote call, and a present credential with both
\* coordinates present, whatever their values, gives no configuration error.
C5_ValidationAsClaimed ==
    \A p \in Procs :
        (Done(p) /\ inv[p].c.kind = "ok") =>
          LET c == inv[p].c
          IN /\ Absent(c.api_key) =>
                  /\ inv[p].outcome = Return(ApiKeyError)
                  /\ inv[p].gets = <<>> /\ inv[p].posts = <<>>
             /\ (~Absent(c.api_key) /\ (Absent(c.latitude) \/ Absent(c.longitude))) =>
                  /\ inv[p].outcome = Return(OriginError)
                  /\ inv[p].gets = <<>> /\ inv[p].posts = <<>>
             /\ (~Absent(c.api_key) /\ ~Absent(c.latitude) /\ ~Absent(c.longitude)) =>
                  ~ConfigError(p)

\* The invocation went on to the transform: it returned a result mapping, or
\* the error result of an exception raised by the transform or the cache write.
Transformed(p) ==
    /\ Returned(p)
    /\ \/ IsResult(Result(p)) /\ Len(inv[p].sets) = 1
       \/ inv[p].caught # "" /\ Result(p) = [error |-> "Error getting route: " \o inv[p].caught]

C7_NoRouteResult ==
    \A p \in Procs :
        (MissAnswered(p) /\ inv[p].reply.status = 200 /\ inv[p].reply.json.ok
         /\ Len(RoutesOf(p)) = 0) =>
          /\ Returned(p)
          /\ DOMAIN Result(p) = {"result"}
          /\ Contains(Result(p).result, "No route found")
          /\ inv[p].sets = <<>>
          /\ inv[p].caught = ""

C7_Witness ==
    \E p \in Procs :
        /\ MissAnswered(p) /\ inv[p].reply.status = 200 /\ inv[p].reply.json.ok
        /\ "routes" \notin DOMAIN inv[p].reply.json.data
        /\ Returned(p) /\ IsNoRoute(Result(p))

\* Invocation p missed the cache and returned a result computed from the
\* first route of a status-200 response.
Computed(p) ==
    /\ MissAnswered(p) /\ TransformSucceeded(inv[p])
    /\ Returned(p) /\ IsResult(Result(p))

FirstRoute(p) == inv[p].reply.json.data.routes[1]

\* The duration of N seconds as the claim words it.
ClaimedDuration(n) ==
    LET hours == n \div 3600
        minutes == (n % 3600) \div 60
    IN (IF hours > 0
        THEN ToString(hours) \o (IF hours = 1 THEN " hour " ELSE " hours ")
        ELSE "")
       \o ToString(minutes) \o (IF minutes = 1 THEN " minute" ELSE " minutes")

\* C8: a result computed from a route whose duration is "<N>s", N >= 0, has
\* the duration text with hours = N div 3600 and minutes = (N mod 3600) div 60,
\* the hour segment exactly when hours > 0, each unit singular exactly at 1;
\* 1200 gives "20 minutes", 7200 "2 hours 0 minutes", 0 "0 minutes" and 3660
\* "1 hour 1 minute".
C8_DurationText ==
    \A p \in Procs :
        (Computed(p) /\ "duration" \in DOMAIN FirstRoute(p)) =>
          LET n == PyInt(RStrip(FirstRoute(p).duration, "s")).val
              text == Result(p).duration
          IN (n >= 0 /\ FirstRoute(p).duration = ToString(n) \o "s") =>
               /\ text = ClaimedDuration(n)
               /\ n = 1200 => text = "20 minutes"
               /\ n = 7200 => text = "2 hours 0 minutes"
               /\ n = 0 => text = "0 minutes"
               /\ n = 3660 => text = "1 hour 1 minute"
               /\ n = 3600 => text = "1 hour 0 minutes"
               /\ n = 60 => text = "1 minute"

C8_Witness ==
    \E p \in Procs :
        /\ Computed(p) /\ "duration" \in DOMAIN FirstRoute(p)
        /\ FirstRoute(p).duration = "3660s"
        /\ Result(p).duration = "1 hour 1 minute"

\* The travel mode set in the configuration of invocation p (options over
\* config), None when it is not set.
ConfiguredMode(p) ==
    DictGet(DictMerge(inv[p].hass.data[DOMAIN_NAME].config, inv[p].hass.entries[1].options),
            CONF_GOOGLE_ROUTES_TRAVEL_MODE, PyNone)

ClaimedDisplay ==
    ("DRIVE" :> "drive") @@ ("WALK" :> "walk") @@ ("BICYCLE" :> "bicycle")
    @@ ("TRANSIT" :> "transit") @@ ("TWO_WHEELER" :> "two wheeler")

\* C9: a result computed under a configured travel mode among DRIVE, WALK,
\* BICYCLE, TRANSIT and TWO_WHEELER shows the mode lowercased with its
\* underscores replaced by spaces, while the payload looked up in the cache and
\* the payload posted carry the configured mode unchanged; with no mode
\* configured the default mode of SERVICE_DEFAULTS takes its place in all three.
C9_TravelMode ==
    \A p \in Procs :
        Computed(p) =>
          LET mode == IF ConfiguredMode(p) = PyNone
                      THEN SERVICE_DEFAULTS[CONF_GOOGLE_ROUTES_TRAVEL_MODE]
                      ELSE ConfiguredMode(p)
          IN mode.s \in TravelModes =>
               /\ Result(p).travel_mode = ClaimedDisplay[mode.s]
               /\ inv[p].gets[1].payload.travelMode = mode
               /\ Len(inv[p].posts) = 1
               /\ inv[p].posts[1].json.travelMode = mode
               /\ inv[p].sets[1].payload.travelMode = mode

C9_Witness ==
    \E p \in Procs :
        /\ Computed(p) /\ ConfiguredMode(p) = PyStr("TWO_WHEELER")
        /\ Result(p).travel_mode = "two wheeler"
        /\ inv[p].posts[1].json.travelMode = PyStr("TWO_WHEELER")

\* C10: a result computed from a route of m meters, m >= 0, shows the
\* kilometres with one decimal, within 0.05 km of m / 1000 (a distance
\* exactly halfway between two tenths goes to either), followed by " km";
\* 5000 gives "5.0 km", 100000 "100.0 km" and a route without distanceMeters
\* "0.0 km".
C10_DistanceText ==
    \A p \in Procs :
        Computed(p) =>
          LET m == DictGet(FirstRoute(p), "distanceMeters", 0)
              text == Result(p).distance
          IN /\ \E tenths \in {m \div 100, (m \div 100) + 1} :
                    /\ 100 * tenths - m <= 50
                    /\ m - 100 * tenths <= 50
                    /\ text = ToString(tenths \div 10) \o "." \o ToString(tenths % 10) \o " km"
             /\ m = 5000 => text = "5.0 km"
             /\ m = 100000 => text = "100.0 km"
             /\ "distanceMeters" \notin DOMAIN FirstRoute(p) => text = "0.0 km"

C10_Witness ==
    \E p \in Procs :
        /\ Computed(p) /\ "distanceMeters" \in DOMAIN FirstRoute(p)
        /\ FirstRoute(p).distanceMeters = 1250
        /\ Result(p).distance = "1.2 km"

\* The remote call of a finished invocation failed: it raised, it was
\* answered with a status that is not 200, or an exception was caught after it.
RemoteFailed(rec) ==
    /\ rec.reply # PyNone
    /\ \/ rec.reply.kind = "raise"
       \/ rec.reply.status # 200
       \/ rec.caught # ""

\* C11: an invocation calls session.post at most once; the step that resumes it
\* after the remote call ends it without another call, and when the call
\* raised, was answered with a status other than 200 or an exception was
\* caught, ends it with an error result; an exception caught before the remote
\* call ends the invocation with an error result and no remote call at all.
C11_AtMostOneCall ==
    [][\A p \in Procs :
          /\ Len(inv'[p].posts) <= 1
          /\ (inv[p].pc = "calling" /\ inv'[p] # inv[p]) =>
                /\ inv'[p].pc = "done"
                /\ inv'[p].posts = inv[p].posts
                /\ RemoteFailed(inv'[p]) =>
                      /\ inv'[p].outcome.kind = "return"
                      /\ IsError(inv'[p].outcome.value)
          /\ (inv[p].pc = "idle" /\ inv'[p].pc = "done" /\ inv'[p].caught # "") =>
                /\ inv'[p].posts = <<>>
                /\ inv'[p].outcome.kind = "return"
                /\ IsError(inv'[p].outcome.value)]_vars

C11_Witness ==
    \E p \in Procs :
        /\ Done(p) /\ Len(inv[p].posts) = 1
        /\ inv[p].reply = Raise("Network error")
        /\ Result(p) = [error |-> "Error getting route: Network error"]

\* Two invocations that read the same origin, destination and travel mode.
SameQuery(a, b) ==
    /\ a.pc # "idle" /\ b.pc # "idle"
    /\ a.c.kind = "ok" /\ b.c.kind = "ok"
    /\ a.c.latitude = b.c.latitude /\ a.c.longitude = b.c.longitude
    /\ a.c.destination = b.c.destination
    /\ a.c.travel_mode = b.c.travel_mode

\* The invocation has written its result to the cache.
Wrote(rec) == rec.pc = "done" /\ Len(rec.sets) = 1 /\ rec.caught = ""

\* Orders in which the keys of the request body may have been inserted.
InsertionOrders ==
    LET n == Len(RequestKeys)
    IN {[i \in 1..n |-> RequestKeys[((i + k - 1) % n) + 1]] : k \in 0..(n - 1)}
       \cup {[i \in 1..n |-> RequestKeys[n + 1 - i]]}

FingerprintOfCall(call) == Fingerprint(call.namespace, call.payload)

\* C12: two invocations with the same origin latitude and longitude, the same
\* destination and the same travel mode look up and write under one
\* fingerprint, which is that of their payload with its fields inserted in any
\* order; so an invocation whose lookup is made (and does not fail) after the
\* other wrote its result gets the entry stored under that fingerprint and
\* returns it without a remote call.
C12_SameFingerprint ==
    [][/\ \A q \in Procs :
             (inv[q].pc = "idle" /\ inv'[q].pc # "idle" /\ Len(inv'[q].gets) = 1) =>
               LET b == inv'[q]
                   fp == FingerprintOfCall(b.gets[1])
               IN /\ \A order \in InsertionOrders :
                        Fingerprint(b.gets[1].namespace,
                                    Canonical(Items(b.request_body, order))) = fp
                  /\ \A p \in Procs \ {q} :
                        (SameQuery(inv[p], b) /\ Len(inv[p].gets) = 1) =>
                          /\ FingerprintOfCall(inv[p].gets[1]) = fp
                          /\ inv[p].gets[1].namespace = b.gets[1].namespace
                          /\ inv[p].gets[1].payload = b.gets[1].payload
                          /\ (Wrote(inv[p]) /\ b.caught = "") =>
                                /\ fp \in DOMAIN cache
                                /\ \E w \in Procs :
                                      Wrote(inv[w]) /\ inv[w].sets[1].value = cache[fp]
                                /\ b.cached_response = cache[fp]
                                /\ b.pc = "done" /\ b.outcome = Return(cache[fp])
                                /\ b.posts = <<>> /\ b.sets = <<>>
       /\ \A r \in Procs :
             (inv[r].pc = "calling" /\ inv'[r].pc = "done") =>
                \A i \in DOMAIN inv'[r].sets :
                    FingerprintOfCall(inv'[r].sets[i])
                      = FingerprintOfCall(inv'[r].gets[1])]_vars

C12_Witness ==
    \E p, q \in Procs :
        /\ p < q /\ SameQuery(inv[p], inv[q])
        /\ Wrote(inv[p]) /\ IsResult(Result(p))
        /\ Done(q) /\ inv[q].posts = <<>> /\ Len(inv[q].gets) = 1
        /\ inv[q].cached_response = inv[p].sets[1].value
        /\ inv[q].outcome = inv[p].outcome

\* Two invocations whose origin latitude, origin longitude, travel mode or
\* destination differ.
Differ(a, b) ==
    \/ PyFloat(a.c.latitude).val # PyFloat(b.c.latitude).val
    \/ PyFloat(a.c.longitude).val # PyFloat(b.c.longitude).val
    \/ a.c.travel_mode # b.c.travel_mode
    \/ a.c.destination # b.c.destination

\* C13: an invocation whose lookup hits returns a value that an invocation
\* with the same origin latitude and longitude, travel mode and destination
\* wrote; no invocation that differs in one of them wrote under the
\* fingerprint of the lookup; and every result mapping returned shows the
\* destination argument and the travel mode of the invocation returning it.
C13_ScopedCache ==
    \A q \in Procs :
        /\ (Returned(q) /\ IsResult(Result(q))) =>
              /\ Result(q).destination = inv[q].tool_args.destination
              /\ Result(q).travel_mode = DisplayMode(inv[q].c.travel_mode.s)
        /\ (Done(q) /\ Hit(q)) =>
              /\ Result(q) = inv[q].cached_response
              /\ \E w \in Procs \ {q} :
                    /\ Wrote(inv[w]) /\ ~Differ(inv[w], inv[q])
                    /\ inv[w].sets[1].value = inv[q].cached_response
        /\ \A w \in Procs :
              (inv[q].pc # "idle" /\ Len(inv[q].gets) = 1
               /\ Len(inv[w].sets) = 1 /\ Differ(inv[w], inv[q])) =>
                 FingerprintOfCall(inv[w].sets[1]) # FingerprintOfCall(inv[q].gets[1])

C13_Witness ==
    \E w, q \in Procs :
        /\ Wrote(inv[w]) /\ Done(q) /\ Len(inv[q].gets) = 1
        /\ inv[w].c.destination = inv[q].c.destination
        /\ inv[w].c.latitude = inv[q].c.latitude
        /\ inv[w].c.longitude = inv[q].c.longitude
        /\ inv[w].c.travel_mode = PyStr("DRIVE") /\ inv[q].c.travel_mode = PyStr("WALK")
        /\ ~Hit(q) /\ Returned(q) /\ IsResult(Result(q))
        /\ Result(q).travel_mode = "walk"

\* Invocation w wrote the value v under the fingerprint fp.
WroteUnder(w, fp, v) ==
    /\ Wrote(inv[w])
    /\ FingerprintOfCall(inv[w].sets[1]) = fp
    /\ inv[w].sets[1].value = v

\* C14: in every interleaving of the invocations, each fingerprint of the
\* store holds one value, which is a complete result mapping that an
\* invocation wrote under that fingerprint; and what a lookup returned, also
\* one made while another invocation of the same fingerprint was in flight
\* and wrote later, is either nothing or a complete result mapping that an
\* invocation had written under the fingerprint of the lookup.
C14_AtomicStore ==
    /\ \A fp \in DOMAIN cache :
          /\ IsResult(cache[fp])
          /\ \E w \in Procs : WroteUnder(w, fp, cache[fp])
    /\ \A q \in Procs :
          (inv[q].pc # "idle" /\ Len(inv[q].gets) = 1) =>
             \/ inv[q].cached_response = PyNone
             \/ /\ IsResult(inv[q].cached_response)
                /\ \E w \in Procs \ {q} :
                      WroteUnder(w, FingerprintOfCall(inv[q].gets[1]),
                                 inv[q].cached_response)

\* The lookup of q was made while p was in flight; p wrote afterwards and q
\* had got nothing.
C14_Witness ==
    \E p, q \in Procs :
        /\ p < q /\ Wrote(inv[p]) /\ Done(q) /\ Len(inv[q].gets) = 1
        /\ FingerprintOfCall(inv[q].gets[1]) = FingerprintOfCall(inv[p].sets[1])
        /\ inv[q].cached_response = PyNone
        /\ inv[q].reply # PyNone
        /\ cache[FingerprintOfCall(inv[p].sets[1])] = inv[p].sets[1].value

\* cache.get of invocation p raised; cache.set of invocation p raised.
GetFailed(p) ==
    /\ Done(p) /\ Len(inv[p].gets) = 1 /\ inv[p].caught # ""
    /\ inv[p].posts = <<>>
SetFailed(p) == Done(p) /\ Len(inv[p].sets) = 1 /\ inv[p].caught # ""

\* The remote call of invocation p raised (a transport error), or the body of
\* its status-200 response could not be decoded (a parse error).
TransportOrParseFailed(p) ==
    /\ Done(p) /\ inv[p].reply # PyNone
    /\ \/ inv[p].reply.kind = "raise"
       \/ inv[p].reply.status = 200 /\ ~inv[p].reply.json.ok

\* The text starts with the prefix.
HasPrefix(text, prefix) ==
    Len(text) >= Len(prefix) /\ SubSeq(text, 1, Len(prefix)) = prefix

StepsInOrder(p) ==
    LET r == inv[p]
    IN /\ Len(r.gets) <= 1 /\ Len(r.posts) <= 1 /\ Len(r.sets) <= 1
       /\ r.gets # <<>> => r.c.kind = "ok" /\ Validate(r.c) = PyNone
       /\ r.posts # <<>> => r.gets # <<>> /\ ~CacheHit(r.cached_response)
       /\ r.reply # PyNone => r.posts # <<>>
       /\ r.sets # <<>> =>
             /\ r.pc = "done" /\ r.reply # PyNone /\ TransformSucceeded(r)
       /\ (r.pc = "done" /\ r.outcome.kind = "return" /\ IsResult(r.outcome.value)) =>
             \/ r.posts = <<>> /\ r.outcome.value = r.cached_response
             \/ Len(r.sets) = 1 /\ r.outcome.value = r.sets[1].value

\* C16 (as claimed): every invocation takes the steps of the state machine in
\* order, none twice, and, its remote call being eventually answered, every
\* invocation made eventually returns.
C16_OrderedAndReturns ==
    /\ [](\A p \in Procs : StepsInOrder(p))
    /\ \A p \in Procs : [](inv[p].pc # "idle" => <>Returned(p))

\* C16 (the part that holds): the steps are taken in order, none twice, and
\* every invocation made eventually ends, by returning or by raising.
C16_OrderedAndEnds ==
    /\ [](\A p \in Procs : StepsInOrder(p))
    /\ \A p \in Procs : [](inv[p].pc # "idle" => <>Done(p))

\* C17: no step removes an entry of the store, and an entry changes only by
\* the write of an invocation under its fingerprint; an invocation whose lookup
\* (not raising) is made when the store holds an entry for its fingerprint gets
\* that entry, returns it and makes no remote call, whatever invocations came
\* in between.
C17_NeverExpires ==
    [][/\ DOMAIN cache \subseteq DOMAIN cache'
       /\ \A fp \in DOMAIN cache :
             cache'[fp] # cache[fp] =>
                \E w \in Procs :
                    /\ inv[w].pc = "calling" /\ Wrote(inv'[w])
                    /\ FingerprintOfCall(inv'[w].sets[1]) = fp
                    /\ inv'[w].sets[1].value = cache'[fp]
       /\ \A q \in Procs :
             (inv[q].pc = "idle" /\ Len(inv'[q].gets) = 1 /\ inv'[q].caught = ""
              /\ FingerprintOfCall(inv'[q].gets[1]) \in DOMAIN cache) =>
                LET entry == cache[FingerprintOfCall(inv'[q].gets[1])]
                IN /\ inv'[q].cached_response = entry
                   /\ inv'[q].pc = "done" /\ inv'[q].outcome = Return(entry)
                   /\ inv'[q].posts = <<>>
                   /\ cache' = cache]_vars

C17_Witness ==
    \E w, q \in Procs :
        /\ w < q /\ Wrote(inv[w]) /\ Done(q) /\ Hit(q)
        /\ FingerprintOfCall(inv[q].gets[1]) \in DOMAIN cache
        /\ Result(q) = cache[FingerprintOfCall(inv[q].gets[1])]
        /\ inv[q].posts = <<>>

\* What the first invocation on an empty store ends with when its remote call
\* is answered with the first candidate alone.
FirstAlone(p) ==
    LET before == [inv[p] EXCEPT !.pc = "calling", !.reply = PyNone,
                                 !.sets = <<>>, !.caught = "", !.outcome = Pending]
    IN EndCall(before, <<>>, Ok200([routes |-> <<FirstRoute(p)>>]), [set |-> ""])

\* C18: an invocation answered with several candidates ends as it would have
\* with the first candidate alone: the same outcome, the same value passed to
\* cache.set and the same store; when it returns a result, its duration and
\* distance are those of the first candidate.
C18_FirstRouteOnly ==
    \A p \in Procs :
        (MissAnswered(p) /\ inv[p].reply.status = 200 /\ inv[p].reply.json.ok
         /\ Len(RoutesOf(p)) >= 2) =>
          /\ inv[p].outcome = FirstAlone(p).rec.outcome
          /\ inv[p].sets = FirstAlone(p).rec.sets
          /\ cache = FirstAlone(p).store
          /\ (Returned(p) /\ IsResult(Result(p))) =>
                LET first == FirstRoute(p)
                    n == PyInt(RStrip(DictGet(first, "duration", "0s"), "s")).val
                    m == DictGet(first, "distanceMeters", 0)
                IN /\ Result(p).duration = ClaimedDuration(n)
                   /\ m = 5000 => Result(p).distance = "5.0 km"
                   /\ m = 150 => Result(p).distance = "0.1 km"
                   /\ m = 0 => Result(p).distance = "0.0 km"
                   /\ inv[p].sets[1].value = Result(p)

C18_Witness ==
    \E p \in Procs :
        /\ MissAnswered(p) /\ Returned(p)
        /\ RoutesOf(p) = <<Route("1200s", 5000), Route("soon", 5000), Route("3660s", 150)>>
        /\ Result(p).duration = "20 minutes" /\ Result(p).distance = "5.0 km"
        /\ Len(inv[p].sets) = 1

\* All invocations have ended and were of one request that passes validation.
AllOfOneRequest ==
    \A p \in Procs :
        /\ Done(p) /\ SameQuery(inv[p], inv[1])
        /\ Validate(inv[p].c) = PyNone

\* The fingerprint of the request of the first invocation.
FirstFingerprint == Fingerprint(ModuleName, BuildRequest(inv[1].c).body)

\* The invocations that made a remote call.
Callers == {p \in Procs : Len(inv[p].posts) = 1}

\* C19 (as claimed): once all of k concurrent invocations of one request on
\* an empty store (each missed and had its remote call answered) have
\* returned, between 1 and k remote calls were made and the store holds
\* exactly one entry, under the fingerprint of the request, equal to the
\* result returned by one of the invocations that missed.
C19_OneEntryAsClaimed ==
    (AllOfOneRequest /\ \A p \in Procs : MissAnswered(p)) =>
      /\ Cardinality(Callers) >= 1 /\ Cardinality(Callers) <= NumInv
      /\ DOMAIN cache = {FirstFingerprint}
      /\ \E p \in Callers : Returned(p) /\ Result(p) = cache[FirstFingerprint]

\* C19 (amended): the store changes only in the step that ends an invocation
\* whose lookup had missed, which then holds that invocation's result under
\* the fingerprint looked up; an invocation whose lookup hit never writes; and
\* once all of k invocations of one request on an empty store have ended, at
\* most k remote calls were made (at least one if some lookup did not fail),
\* and the store holds an entry, the only one, exactly when one of the
\* invocations that missed wrote its result, the entry being the result
\* returned by one of them.
C19_ReplacedByMissOnly ==
    /\ [][cache' # cache =>
            \E w \in Procs :
                /\ inv[w].pc = "calling" /\ inv[w].cached_response = PyNone
                /\ Wrote(inv'[w])
                /\ FingerprintOfCall(inv'[w].sets[1]) = FingerprintOfCall(inv'[w].gets[1])
                /\ cache' = CacheSet(cache, ModuleName, inv[w].request_body,
                                     inv'[w].outcome.value)]_vars
    /\ [](\A q \in Procs : Hit(q) => inv[q].sets = <<>>)
    /\ [](AllOfOneRequest =>
            /\ Cardinality(Callers) <= NumInv
            /\ (\E p \in Procs : Len(inv[p].gets) = 1 /\ ~GetFailed(p))
                  => Cardinality(Callers) >= 1
            /\ DOMAIN cache \subseteq {FirstFingerprint}
            /\ FirstFingerprint \in DOMAIN cache <=>
                  \E p \in Callers : Wrote(inv[p])
            /\ FirstFingerprint \in DOMAIN cache =>
                  \E p \in Callers :
                      Wrote(inv[p]) /\ Result(p) = cache[FirstFingerprint])

\* Two invocations of one request both missed and wrote different results; the
\* store holds the one written last.
C19_Witness ==
    /\ AllOfOneRequest
    /\ \E p, q \in Procs :
          /\ p # q /\ Wrote(inv[p]) /\ Wrote(inv[q])
          /\ Result(p) # Result(q)
          /\ DOMAIN cache = {FirstFingerprint}
          /\ cache[FirstFingerprint] = Result(q)

\* hass with the credential of its configuration replaced by k.
WithCredential(hass, k) ==
    [hass EXCEPT !.data[DOMAIN_NAME].config[CONF_GOOGLE_ROUTES_API_KEY] = k]

\* What invocation q, made in the step, would have been after the step had it
\* been made with the credential k, all else equal.
MadeWith(q, k) ==
    StartCall(inv[q], cache, WithCredential(inv'[q].hass, k), inv'[q].tool_args,
              [session |-> "", get |-> ""])

\* C20: the step that makes an invocation with a present credential looks up
\* the fingerprint it would look up with any other present credential, the
\* payload holding nothing of the credential; when the lookup hits, the
\* invocation returns the stored result and makes no remote call, exactly as
\* it would with the other credential; when it misses, the credential goes
\* into the header of the remote call only.
C20_CredentialNotInFingerprint ==
    [][\A q \in Procs :
          (inv[q].pc = "idle" /\ inv'[q].pc # "idle" /\ Len(inv'[q].gets) = 1) =>
            \A k \in Credentials :
              LET other == MadeWith(q, k)
              IN /\ Len(other.gets) = 1
                 /\ FingerprintOfCall(other.gets[1]) = FingerprintOfCall(inv'[q].gets[1])
                 /\ other.cached_response = inv'[q].cached_response
                 /\ Hit(q)' =>
                       /\ inv'[q].pc = "done" /\ inv'[q].posts = <<>>
                       /\ inv'[q].outcome = Return(inv'[q].cached_response)
                       /\ other.pc = "done" /\ other.posts = <<>>
                       /\ other.outcome = inv'[q].outcome
                 /\ ~Hit(q)' =>
                       /\ Len(inv'[q].posts) = 1 /\ Len(other.posts) = 1
                       /\ inv'[q].posts[1].headers.XGoogApiKey = inv'[q].c.api_key.s
                       /\ other.posts[1].headers.XGoogApiKey = k.s
                       /\ other.posts[1].json = inv'[q].posts[1].json]_vars

\* An invocation made with another credential than the one that wrote the
\* entry got that entry and made no remote call.
C20_Witness ==
    \E w, q \in Procs :
        /\ Wrote(inv[w]) /\ Done(q) /\ Hit(q)
        /\ inv[w].c.api_key # inv[q].c.api_key
        /\ Result(q) = inv[w].sets[1].value
        /\ inv[q].posts = <<>>

====
